---- MODULE Spec2Model ----
(***************************************************************************)
(* A model of the tool-calling agent: the pruning policy and the turn     *)
(* loop (agent.py), the tool dispatch boundary (scenarios.py), the log    *)
(* record scanner, the session exporter and the lifecycle coordinator     *)
(* (main.py).                                                              *)
(***************************************************************************)
EXTENDS Integers, Sequences, FiniteSets, TLC

VARIABLES
    pc,                     \* position of the main flow / of the harness
    messages,               \* run_agent: the live message history
    keep_last_screenshots,  \* cfg["keep_last_screenshots"]
    pre,                    \* harness: the argument as it was before the call
    tc,                     \* the tool call being dispatched: name, arguments, id
    dump_idx,               \* dump_cfg["dump_idx"], the artifact index
    ret,                    \* what execute_tool returned (or that it raised)
    winapi_calls,           \* the collaborator invocations made so far
    last_content,           \* run_agent: the candidate answer
    step,                   \* run_agent: the turns completed by the for loop
    max_steps,              \* cfg["max_steps"]
    requests,               \* the model-service requests made so far
    dispatched,             \* the tool calls handed to execute_tool so far
    out,                    \* what run_agent returned
    execution_state,        \* main.py: _execution_state
    writes,                 \* the assignments made so far to each key of _execution_state
    captures,               \* the screenshots run_agent has appended so far
    now,                    \* the clock datetime.now() reads
    exports,                \* the export attempts made so far
    handler,                \* position of the innermost running signal handler
    signals,                \* the termination signals received so far
    exc,                    \* the exception in flight, or that left main
    log_lines,              \* the lines of the source log (or of the scanner's argument)
    scan_i,                 \* the cursor i of the scanning loop in progress
    iterations,             \* the iterations the scanning loop in progress has made
    picked,                 \* _export_and_clean_current_run: the retained lines
    records,                \* the records the export loop has delimited so far
    raw_lines,              \* _clean_log_file: the lines read back from the raw artifact
    cleaned,                \* _clean_log_file: the lines of the cleaned artifact
    ext                     \* what a call of _extract_json_from_position returned

(***************************************************************************)
(* Bounds of the model.                                                    *)
(***************************************************************************)
MaxHist == 4
MaxKeep == 2

Max(a, b) == IF a >= b THEN a ELSE b
Min(a, b) == IF a <= b THEN a ELSE b

(***************************************************************************)
(* Messages.  A content is absent, a string, or a list of parts.  A string  *)
(* is a plain text, the JSON text json.dumps produced (the content of a    *)
(* tool message), the text of an assistant turn, or a pruning placeholder. *)
(***************************************************************************)
NoContent == [kind |-> "none"]
Str(s) == [kind |-> "str", text |-> s]
Parts(ps) == [kind |-> "list", parts |-> ps]

\* json.dumps(d, ...): the string holding the JSON text that encodes the object d
JsonDumps(d) == [kind |-> "str", json |-> d]

\* the non-empty text the model service answers with in its n-th response
AnswerText(n) == [kind |-> "str", text |-> "answer", turn |-> n]

\* _ok_payload(extra) for a capture: {"ok":true,"file":fn,...}
OkFilePayload(fn) == JsonDumps([ok |-> TRUE, file |-> fn])

\* _ok_payload(): {"ok":true}
OkPayload == JsonDumps([ok |-> TRUE])

\* _err_payload(error_type, message)
ErrPayload(error_type, message) ==
    JsonDumps([ok |-> FALSE, error |-> [type |-> error_type, message |-> message]])

\* the observation message of a capture: a text part and an image_url part
ImageContent == Parts(<<"text", "image_url">>)

\* the placeholder pruning writes, f"captured image data{file_hint}"
Placeholder(file_hint) ==
    [kind |-> "str", text |-> "captured image data", file_hint |-> file_hint]

\* any(isinstance(p, dict) and p.get("type") == "image_url" for p in c)
HasImagePart(c) ==
    /\ c.kind = "list"
    /\ \E k \in 1..Len(c.parts) : c.parts[k] = "image_url"

\* the test of the collecting loop of _prune_old_screenshots
IsImageBearing(m) == m.role = "user" /\ HasImagePart(m.content)

\* idxs: the positions of the image-bearing user messages, in history order
RECURSIVE ImageIdxsFrom(_, _)
ImageIdxsFrom(msgs, i) ==
    IF i > Len(msgs) THEN <<>>
    ELSE (IF IsImageBearing(msgs[i]) THEN <<i>> ELSE <<>>) \o ImageIdxsFrom(msgs, i + 1)

ImageIdxs(msgs) == ImageIdxsFrom(msgs, 1)

\* Python's s[:-k] for k >= 0: -0 is 0, so s[:-0] is s[:0], the empty list
PySliceUpToNeg(s, k) ==
    IF k = 0 THEN <<>> ELSE SubSeq(s, 1, Max(0, Len(s) - k))

\* a mutant of FileHint: it reads the message two places before position i
FileHintTwoBack(msgs, i) ==
    IF i > 2 /\ msgs[i - 2].role = "tool"
    THEN LET c == msgs[i - 2].content IN
         IF /\ c.kind = "str"
            /\ "json" \in DOMAIN c
            /\ "ok" \in DOMAIN c.json
            /\ c.json.ok = TRUE
            /\ "file" \in DOMAIN c.json
         THEN [omitted |-> TRUE, file |-> c.json.file]
         ELSE [omitted |-> FALSE]
    ELSE [omitted |-> FALSE]

\* file_hint of the message at position i (1-based here)
FileHint(msgs, i) ==
    IF i > 1 /\ msgs[i - 1].role = "tool"
    THEN LET c == msgs[i - 1].content IN
         IF /\ c.kind = "str"
            /\ "json" \in DOMAIN c
            /\ "ok" \in DOMAIN c.json
            /\ c.json.ok = TRUE
            /\ "file" \in DOMAIN c.json
         THEN [omitted |-> TRUE, file |-> c.json.file]
         ELSE [omitted |-> FALSE]
    ELSE [omitted |-> FALSE]

\* a mutant of PruneOldScreenshots: it keeps the earliest keep_last
\* image-bearing messages and replaces the later ones
PruneOldScreenshotsKeepFirst(msgs, keep_last) ==
    LET idxs == ImageIdxs(msgs) IN
    IF Len(idxs) <= keep_last THEN msgs
    ELSE LET old == SubSeq(idxs, keep_last + 1, Len(idxs))
             oldSet == {old[k] : k \in 1..Len(old)}
         IN [i \in 1..Len(msgs) |->
                IF i \in oldSet
                THEN [msgs[i] EXCEPT !.content = Placeholder(FileHint(msgs, i))]
                ELSE msgs[i]]

\* _prune_old_screenshots(messages, keep_last)
PruneOldScreenshots(msgs, keep_last) ==
    LET idxs == ImageIdxs(msgs) IN
    IF Len(idxs) <= keep_last THEN msgs
    ELSE LET old == PySliceUpToNeg(idxs, keep_last)
             oldSet == {old[k] : k \in 1..Len(old)}
         IN [i \in 1..Len(msgs) |->
                IF i \in oldSet
                THEN [msgs[i] EXCEPT !.content = Placeholder(FileHint(msgs, i))]
                ELSE msgs[i]]

(***************************************************************************)
(* JSON values, and json.loads on the argument strings of the model.       *)
(***************************************************************************)
JNull == [t |-> "null"]
JBool(b) == [t |-> "bool", b |-> b]
JNum(n) == [t |-> "number", cls |-> "finite", n |-> n]
JNaN == [t |-> "number", cls |-> "nan", n |-> 0]
JHuge == [t |-> "number", cls |-> "huge_int", n |-> 0]
JString(s) == [t |-> "string", s |-> s]
JArray == [t |-> "array"]
JObject(f) == [t |-> "object", fields |-> f]

DecodeError == [t |-> "JSONDecodeError"]

\* json.loads(arg_str) on each non-empty argument string of ArgStrings
JsonLoadsArg(s) ==
    CASE s = "{}" -> JObject(<<>>)
      [] s = "{" -> DecodeError
      [] s = "[1,2]" -> JArray
      [] s = "5" -> JNum(5)
      [] s = "null" -> JNull
      [] s = "\"x\"" -> JString("x")
      [] s = "{\"x\":500,\"y\":250}" -> JObject([x |-> JNum(500), y |-> JNum(250)])
      [] s = "{\"x\":-5,\"y\":1200}" -> JObject([x |-> JNum(-5), y |-> JNum(1200)])
      [] s = "{\"x\":1}" -> JObject([x |-> JNum(1)])
      [] s = "{\"x\":\"a\",\"y\":1}" -> JObject([x |-> JString("a"), y |-> JNum(1)])
      [] s = "{\"x\":true,\"y\":\"5\"}" -> JObject([x |-> JBool(TRUE), y |-> JString("5")])
      [] s = "{\"x\":NaN,\"y\":1}" -> JObject([x |-> JNaN, y |-> JNum(1)])
      [] s = "{\"x\":null,\"y\":[1,2]}" -> JObject([x |-> JNull, y |-> JArray])
      [] s = "{\"x\":1<400 zeros>,\"y\":1}" -> JObject([x |-> JHuge, y |-> JNum(1)])
      [] s = "{\"text\":\"hi\"}" -> JObject([text |-> JString("hi")])
      [] s = "{\"text\":null}" -> JObject([text |-> JNull])
      [] OTHER -> DecodeError

ArgStrings ==
    { "", "{}", "{", "[1,2]", "5", "null", "\"x\"",
      "{\"x\":500,\"y\":250}", "{\"x\":-5,\"y\":1200}", "{\"x\":1}",
      "{\"x\":\"a\",\"y\":1}", "{\"x\":true,\"y\":\"5\"}", "{\"x\":NaN,\"y\":1}",
      "{\"x\":null,\"y\":[1,2]}", "{\"x\":1<400 zeros>,\"y\":1}",
      "{\"text\":\"hi\"}", "{\"text\":null}" }

\* tc["function"].get("arguments"): absent, a value that is no string, a string
ArgAbsent == [t |-> "absent"]
ArgNotString == [t |-> "not_a_string"]
ArgStr(s) == [t |-> "str", s |-> s]

ArgValues == {ArgAbsent, ArgNotString} \cup {ArgStr(s) : s \in ArgStrings}

(***************************************************************************)
(* scenarios.py: the tool utilities.  A parse result is <<value, err>>     *)
(* with err the error payload or NoErr.                                    *)
(***************************************************************************)
NoErr == [t |-> "None"]
NoMsg == [role |-> "None"]

\* _parse_args(arg_str)
ParseArgs(arg_str) ==
    LET a == IF arg_str = ArgAbsent THEN ArgStr("{}") ELSE arg_str IN
    IF a.t # "str"
    THEN [val |-> NoErr, err |-> ErrPayload("invalid_arguments", "arguments must be a JSON string")]
    ELSE LET val == IF a.s # "" THEN JsonLoadsArg(a.s) ELSE JObject(<<>>) IN
         IF val = DecodeError
         THEN [val |-> NoErr, err |-> ErrPayload("invalid_arguments", "JSON decode error")]
         ELSE IF val.t # "object"
         THEN [val |-> NoErr, err |-> ErrPayload("invalid_arguments", "arguments must decode to an object")]
         ELSE [val |-> val, err |-> NoErr]

\* float(v): a float (finite with value n, or nan), TypeError/ValueError (caught),
\* or OverflowError (not caught)
PyFloat(v) ==
    CASE v.t = "number" /\ v.cls = "huge_int" -> [r |-> "OverflowError"]
      [] v.t = "number" -> [r |-> "ok", x |-> [cls |-> v.cls, n |-> v.n]]
      [] v.t = "bool" -> [r |-> "ok", x |-> [cls |-> "finite", n |-> IF v.b THEN 1 ELSE 0]]
      [] v.t = "string" /\ v.s = "5" -> [r |-> "ok", x |-> [cls |-> "finite", n |-> 5]]
      [] v.t = "string" -> [r |-> "ValueError"]
      [] OTHER -> [r |-> "TypeError"]

\* the clamp of _parse_xy; every comparison with nan is false
Clamp(x) ==
    IF x.cls = "nan" THEN x
    ELSE IF x.n < 0 THEN [x EXCEPT !.n = 0]
    ELSE IF x.n > 1000 THEN [x EXCEPT !.n = 1000]
    ELSE x

\* _parse_xy(arg_str): r is "ok" (x, y), "err" (err) or "raise"
ParseXY(arg_str) ==
    LET p == ParseArgs(arg_str) IN
    IF p.err # NoErr THEN [r |-> "err", err |-> p.err]
    ELSE IF ~("x" \in DOMAIN p.val.fields /\ "y" \in DOMAIN p.val.fields)
    THEN [r |-> "err", err |-> ErrPayload("invalid_arguments", "missing x or y")]
    ELSE LET fx == PyFloat(p.val.fields.x)
             fy == PyFloat(p.val.fields.y)
         IN IF fx.r \in {"TypeError", "ValueError"}
            THEN [r |-> "err", err |-> ErrPayload("invalid_arguments", "x and y must be numbers")]
            ELSE IF fx.r = "OverflowError" THEN [r |-> "raise"]
            ELSE IF fy.r \in {"TypeError", "ValueError"}
            THEN [r |-> "err", err |-> ErrPayload("invalid_arguments", "x and y must be numbers")]
            ELSE IF fy.r = "OverflowError" THEN [r |-> "raise"]
            ELSE [r |-> "ok", x |-> Clamp(fx.x), y |-> Clamp(fy.x)]

\* str(v) followed by encode("ascii", "ignore"), on the text values of the model
PyStrAscii(v) ==
    CASE v.t = "string" -> v.s
      [] v.t = "number" -> "number"
      [] v.t = "bool" -> IF v.b THEN "True" ELSE "False"
      [] OTHER -> "repr"

\* _parse_text(arg_str)
ParseText(arg_str) ==
    LET p == ParseArgs(arg_str) IN
    IF p.err # NoErr THEN [text |-> "", err |-> p.err]
    ELSE IF "text" \notin DOMAIN p.val.fields THEN [text |-> "", err |-> NoErr]
    ELSE IF p.val.fields.text = JNull THEN [text |-> "", err |-> NoErr]
    ELSE [text |-> PyStrAscii(p.val.fields.text), err |-> NoErr]

(***************************************************************************)
(* scenarios.py: execute_tool.  The result says whether an exception left  *)
(* the call, the two returned messages, the artifact index afterwards and  *)
(* the collaborator invocations made.  screen is what the capture meets:   *)
(* "ok", "capture_fails" (winapi raises) or "write_fails" (open/write      *)
(* raises).                                                                *)
(***************************************************************************)
ToolMsg(call_id, name, payload) ==
    [role |-> "tool", tool_call_id |-> call_id, name |-> name, content |-> payload]

Returned(tool_msg, user_msg, idx, calls) ==
    [raised |-> FALSE, exc |-> "None", tool_msg |-> tool_msg, user_msg |-> user_msg,
     dump_idx |-> idx, calls |-> calls]

Raised(exception, idx, calls) ==
    [raised |-> TRUE, exc |-> exception, tool_msg |-> NoMsg, user_msg |-> NoMsg,
     dump_idx |-> idx, calls |-> calls]

ScreenOutcomes == {"ok", "capture_fails", "write_fails"}

\* the branch of execute_tool for an unrecognized name
UnknownTool(tool_name, call_id, idx) ==
    Returned(ToolMsg(call_id, tool_name, ErrPayload("unknown_tool", tool_name)),
             NoMsg, idx, <<>>)

\* a mutant of TakeScreenshot: the index is not incremented after the write
TakeScreenshotSameIndex(tool_name, arg_str, call_id, idx, screen) ==
    IF screen = "capture_fails" THEN Raised("RuntimeError", idx, <<"capture_screenshot_png">>)
    ELSE IF screen = "write_fails" THEN Raised("OSError", idx, <<"capture_screenshot_png">>)
    ELSE Returned(ToolMsg(call_id, tool_name, OkFilePayload(idx)),
                  [role |-> "user", content |-> ImageContent],
                  idx, <<"capture_screenshot_png">>)

\* the branch of execute_tool for take_screenshot
TakeScreenshot(tool_name, arg_str, call_id, idx, screen) ==
    IF screen = "capture_fails" THEN Raised("RuntimeError", idx, <<"capture_screenshot_png">>)
    ELSE IF screen = "write_fails" THEN Raised("OSError", idx, <<"capture_screenshot_png">>)
    ELSE Returned(ToolMsg(call_id, tool_name, OkFilePayload(idx)),
                  [role |-> "user", content |-> ImageContent],
                  idx + 1, <<"capture_screenshot_png">>)

\* the branches of execute_tool for click_mouse and scroll_down
ZeroArgTool(tool_name, arg_str, call_id, idx) ==
    LET p == ParseArgs(arg_str) IN
    IF p.err # NoErr
    THEN Returned(ToolMsg(call_id, tool_name, p.err), NoMsg, idx, <<>>)
    ELSE Returned(ToolMsg(call_id, tool_name, OkPayload), NoMsg, idx, <<tool_name>>)

\* the branch of execute_tool for move_mouse
MoveMouse(tool_name, arg_str, call_id, idx) ==
    LET p == ParseXY(arg_str) IN
    IF p.r = "raise" THEN Raised("OverflowError", idx, <<>>)
    ELSE IF p.r = "err"
    THEN Returned(ToolMsg(call_id, tool_name, p.err), NoMsg, idx, <<>>)
    ELSE Returned(ToolMsg(call_id, tool_name, OkPayload), NoMsg, idx,
                  <<<<"move_mouse_norm", p.x, p.y>>>>)

\* the branch of execute_tool for type_text
TypeText(tool_name, arg_str, call_id, idx) ==
    LET p == ParseText(arg_str) IN
    IF p.err # NoErr
    THEN Returned(ToolMsg(call_id, tool_name, p.err), NoMsg, idx, <<>>)
    ELSE Returned(ToolMsg(call_id, tool_name, OkPayload), NoMsg, idx,
                  <<<<"type_text", p.text>>>>)

\* a mutant of ExecuteTool: the arguments are parsed before the name is looked up
ExecuteToolParseFirst(tool_name, arg_str, call_id, idx, screen) ==
    IF ParseArgs(arg_str).err # NoErr
    THEN Returned(ToolMsg(call_id, tool_name, ParseArgs(arg_str).err), NoMsg, idx, <<>>)
    ELSE IF tool_name = "take_screenshot"
    THEN TakeScreenshot(tool_name, arg_str, call_id, idx, screen)
    ELSE IF tool_name = "move_mouse" THEN MoveMouse(tool_name, arg_str, call_id, idx)
    ELSE IF tool_name = "click_mouse" THEN ZeroArgTool(tool_name, arg_str, call_id, idx)
    ELSE IF tool_name = "type_text" THEN TypeText(tool_name, arg_str, call_id, idx)
    ELSE IF tool_name = "scroll_down" THEN ZeroArgTool(tool_name, arg_str, call_id, idx)
    ELSE UnknownTool(tool_name, call_id, idx)

\* execute_tool(tool_name, arg_str, call_id, dump_cfg)
ExecuteTool(tool_name, arg_str, call_id, idx, screen) ==
    IF tool_name = "take_screenshot"
    THEN TakeScreenshot(tool_name, arg_str, call_id, idx, screen)
    ELSE IF tool_name = "move_mouse" THEN MoveMouse(tool_name, arg_str, call_id, idx)
    ELSE IF tool_name = "click_mouse" THEN ZeroArgTool(tool_name, arg_str, call_id, idx)
    ELSE IF tool_name = "type_text" THEN TypeText(tool_name, arg_str, call_id, idx)
    ELSE IF tool_name = "scroll_down" THEN ZeroArgTool(tool_name, arg_str, call_id, idx)
    ELSE UnknownTool(tool_name, call_id, idx)

(***************************************************************************)
(* Harness of the pruning policy: every history of a few messages.         *)
(***************************************************************************)
HistoryMessages ==
    { [role |-> "system", content |-> Str("system_prompt")],
      [role |-> "user", content |-> Str("task_prompt")],
      [role |-> "user", content |-> ImageContent],
      [role |-> "user", content |-> Parts(<<"text">>)],
      [role |-> "user", content |-> Placeholder([omitted |-> FALSE])],
      [role |-> "assistant", content |-> Parts(<<"text", "image_url">>)],
      ToolMsg(1, "take_screenshot", OkFilePayload(1)),
      ToolMsg(1, "bogus", ErrPayload("unknown_tool", "bogus")),
      ToolMsg(1, "click_mouse", OkPayload),
      ToolMsg(1, "bogus", Str("not json")) }

RECURSIVE SeqsUpTo(_, _)
SeqsUpTo(S, n) ==
    IF n = 0 THEN {<<>>}
    ELSE LET shorter == SeqsUpTo(S, n - 1) IN
         shorter \cup {Append(s, x) : s \in {t \in shorter : Len(t) = n - 1}, x \in S}

vars == <<pc, messages, keep_last_screenshots, pre, tc, dump_idx, ret, winapi_calls,
          last_content, step, max_steps, requests, dispatched, out,
          execution_state, writes, captures, now, exports, handler, signals, exc,
          log_lines, scan_i, iterations, picked, records, raw_lines, cleaned, ext>>

NoCall == [name |-> "None"]
NoRet == [raised |-> "None"]

\* the variables of the dispatch boundary, while it is not in use
ToolIdle ==
    /\ tc = NoCall
    /\ dump_idx = 0
    /\ ret = NoRet
    /\ winapi_calls = <<>>

toolVars == <<tc, dump_idx, ret, winapi_calls>>

NoOut == [kind |-> "not_returned"]
NoExc == [type |-> "None"]
Unset == [set |-> FALSE]
NoWrites == [logs_dir |-> 0, start_dt |-> 0, end_dt |-> 0]
SetTo(v) == [set |-> TRUE, v |-> v]

\* the variables of the run and of the lifecycle coordinator, while not in use
RunIdle ==
    /\ last_content = Str("")
    /\ step = 0
    /\ max_steps = 0
    /\ requests = 0
    /\ dispatched = <<>>
    /\ out = NoOut
    /\ execution_state = [logs_dir |-> Unset, start_dt |-> Unset, end_dt |-> Unset]
    /\ writes = NoWrites
    /\ captures = 0
    /\ now = 0
    /\ exports = <<>>
    /\ handler = "none"
    /\ signals = 0
    /\ exc = NoExc

runVars == <<last_content, step, max_steps, requests, dispatched, out,
             execution_state, writes, captures, now, exports, handler, signals, exc>>

NoExt == [called |-> FALSE]

\* the variables of the scanner and of the exporter, while not in use
ScanIdle ==
    /\ log_lines = <<>>
    /\ scan_i = 0
    /\ iterations = 0
    /\ picked = <<>>
    /\ records = <<>>
    /\ raw_lines = <<>>
    /\ cleaned = <<>>
    /\ ext = NoExt

scanVars == <<log_lines, scan_i, iterations, picked, records, raw_lines, cleaned, ext>>

PruneInit ==
    /\ pc = "prune"
    /\ messages \in SeqsUpTo(HistoryMessages, MaxHist)
    /\ keep_last_screenshots \in 0..MaxKeep
    /\ pre = messages
    /\ ToolIdle
    /\ RunIdle
    /\ ScanIdle

PruneCall ==
    /\ pc = "prune"
    /\ messages' = PruneOldScreenshots(messages, keep_last_screenshots)
    /\ pc' = "pruned"
    /\ UNCHANGED <<keep_last_screenshots, pre>>
    /\ UNCHANGED toolVars
    /\ UNCHANGED runVars
    /\ UNCHANGED scanVars

PruneNext == PruneCall

PruneSpec == PruneInit /\ [][PruneNext]_vars

(***************************************************************************)
(* Harness of the dispatch boundary: every tool name of the model with     *)
(* every argument value, at some artifact index.                           *)
(***************************************************************************)
RecognizedTools == {"take_screenshot", "move_mouse", "click_mouse", "type_text", "scroll_down"}
UnknownTools == {"bogus", "screenshot"}
CallIds == {1, 2}
MaxDumpStart == 2

ToolInit ==
    /\ pc = "tool"
    /\ tc \in [name : RecognizedTools \cup UnknownTools, arguments : ArgValues, id : CallIds]
    /\ dump_idx \in 1..MaxDumpStart
    /\ pre = dump_idx
    /\ ret = NoRet
    /\ winapi_calls = <<>>
    /\ messages = <<>>
    /\ keep_last_screenshots = 0
    /\ RunIdle
    /\ ScanIdle

ToolCall ==
    /\ pc = "tool"
    /\ \E screen \in ScreenOutcomes :
        LET r == ExecuteTool(tc.name, tc.arguments, tc.id, dump_idx, screen) IN
        /\ ret' = r
        /\ dump_idx' = r.dump_idx
        /\ winapi_calls' = winapi_calls \o r.calls
    /\ pc' = "tool_done"
    /\ UNCHANGED <<messages, keep_last_screenshots, pre, tc>>
    /\ UNCHANGED runVars
    /\ UNCHANGED scanVars

ToolNext == ToolCall

ToolSpec == ToolInit /\ [][ToolNext]_vars

(***************************************************************************)
(* agent.py and main.py: one run.  The model service answers each request  *)
(* with an assistant message or fails; the configuration is drawn in Init. *)
(***************************************************************************)
MaxSteps == 2
MaxCalls == 2
MaxSignals == 1
MaxKeepRun == 1
DumpStart == 1

\* msg.get("content"): absent, the empty string, or a text
ModelContents(n) == {NoContent, Str(""), AnswerText(n)}

\* the first tool call of a response: its name and argument string
FirstCalls ==
    { [name |-> "take_screenshot", arguments |-> ArgStr("{}")],
      [name |-> "click_mouse", arguments |-> ArgStr("{}")],
      [name |-> "click_mouse", arguments |-> ArgStr("{")],
      [name |-> "bogus", arguments |-> ArgAbsent] }

\* the tool calls of the n-th response: m calls, the first one f, with distinct ids
ToolCallsOf(n, f, m) ==
    [k \in 1..m |->
        IF k = 1 THEN [id |-> 10 * n + 1, name |-> f.name, arguments |-> f.arguments]
        ELSE [id |-> 10 * n + k, name |-> "take_screenshot", arguments |-> ArgStr("{}")]]

\* resp["choices"][0]["message"] of the n-th response: no tool call, one, or
\* MaxCalls of them
Responses(n) ==
    {[role |-> "assistant", content |-> c, tool_calls |-> <<>>] : c \in ModelContents(n)}
    \cup
    {[role |-> "assistant", content |-> c, tool_calls |-> ToolCallsOf(n, f, m)] :
        c \in ModelContents(n), f \in FirstCalls, m \in {1, MaxCalls}}

\* the failures of _post_json: transport error, timeout, non-success response
ModelFailures == {"URLError", "timeout", "HTTPError"}

\* a mutant of ExtraCallErrors: the calls after the first are left unanswered
ExtraCallErrorsNone(tool_calls) == <<>>

\* a mutant of ExtraCallErrors: the rejections carry the id of the call before
ExtraCallErrorsShifted(tool_calls) ==
    [k \in 1..(Len(tool_calls) - 1) |->
        ToolMsg(tool_calls[k].id, tool_calls[k + 1].name,
                ErrPayload("too_many_tool_calls", "only one tool call per response allowed"))]

\* the messages run_agent appends for tool_calls[1:]
ExtraCallErrors(tool_calls) ==
    [k \in 1..(Len(tool_calls) - 1) |->
        ToolMsg(tool_calls[k + 1].id, tool_calls[k + 1].name,
                ErrPayload("too_many_tool_calls", "only one tool call per response allowed"))]

\* if isinstance(msg.get("content"), str): last_content = msg["content"]
NextCandidate(candidate, msg) ==
    IF msg.content.kind = "str" THEN msg.content ELSE candidate

\* a mutant of LoopContinues: the loop runs one turn more
LoopContinuesOneMore(done, limit) == done <= limit

\* for _ in range(max_steps): another iteration follows `done` completed ones
LoopContinues(done, limit) == done < limit

\* a mutant of HandleCleanup: the export is entered once the log directory is
\* recorded, whether or not the start time is
HandleCleanupLogsDirOnly(es, t, interrupted, attempts) ==
    IF es.logs_dir.set = FALSE THEN attempts
    ELSE Append(attempts, [start_dt |-> IF es.start_dt.set THEN es.start_dt.v ELSE t,
                           end_dt |-> IF es.end_dt.set THEN es.end_dt.v ELSE t,
                           interrupted |-> interrupted, result |-> "running"])

\* a mutant of HandleCleanup: the export always takes the current time as its end
HandleCleanupNow(es, t, interrupted, attempts) ==
    IF es.logs_dir.set = FALSE \/ es.start_dt.set = FALSE THEN attempts
    ELSE Append(attempts, [start_dt |-> es.start_dt.v, end_dt |-> t + 1,
                           interrupted |-> interrupted, result |-> "running"])

\* _handle_cleanup(interrupted) up to the settle delay of the export: the
\* export attempts afterwards
HandleCleanup(es, t, interrupted, attempts) ==
    IF es.logs_dir.set = FALSE \/ es.start_dt.set = FALSE THEN attempts
    ELSE Append(attempts, [start_dt |-> es.start_dt.v,
                           end_dt |-> IF es.end_dt.set THEN es.end_dt.v ELSE t,
                           interrupted |-> interrupted, result |-> "running"])

\* the outcomes of _export_and_clean_current_run: written, or an exception
\* (no log file in the directory; a read or write error)
ExportResults == {"written", "FileNotFoundError", "OSError"}

\* the exception classes that do not derive from Exception
NotExceptionSubclasses == {"SystemExit", "KeyboardInterrupt", "GeneratorExit"}

\* a mutant of ExceptExceptionCatches: the handler of _handle_cleanup lets
\* every exception through
ExceptCatchesNothing(e) == FALSE

\* except Exception of _handle_cleanup: does it catch an exception of class e
ExceptExceptionCatches(e) == e \notin NotExceptionSubclasses

\* main after _handle_cleanup whose export ended with r: it goes on to
\* next_pc holding e, unless the export raised what the handler does not catch
AfterCleanup(r, next_pc, e) ==
    IF r = "written" \/ ExceptExceptionCatches(r)
    THEN [pc |-> next_pc, exc |-> e]
    ELSE [pc |-> "raised", exc |-> [type |-> r]]

\* the innermost export attempt ends with result r
EndExport(attempts, r) ==
    [attempts EXCEPT ![Len(attempts)] = [@ EXCEPT !.result = r]]

Terminal == {"done", "raised", "signal_exit", "usage_exit"}

\* the exit status of the process once main has ended: 0 when main returns,
\* 1 for sys.exit(1) of the signal handler, for sys.exit with a message and
\* for an exception that leaves main
ExitStatus == IF pc = "done" THEN 0 ELSE 1

Init ==
    /\ pc = "main"
    /\ max_steps \in -1..MaxSteps
    /\ keep_last_screenshots \in 0..MaxKeepRun
    /\ messages = <<>>
    /\ pre = 0
    /\ ToolIdle
    /\ last_content = Str("")
    /\ step = 0
    /\ requests = 0
    /\ dispatched = <<>>
    /\ out = NoOut
    /\ execution_state = [logs_dir |-> Unset, start_dt |-> Unset, end_dt |-> Unset]
    /\ writes = NoWrites
    /\ captures = 0
    /\ now = 0
    /\ exports = <<>>
    /\ handler = "none"
    /\ signals = 0
    /\ exc = NoExc
    /\ ScanIdle

\* main up to the cfg: the scenario is valid, invalid (sys.exit) or not a number
Setup ==
    /\ pc = "main"
    /\ handler = "none"
    /\ \/ pc' = "store_logs_dir" /\ exc' = exc
       \/ pc' = "usage_exit" /\ exc' = [type |-> "SystemExit"]
       \/ pc' = "raised" /\ exc' = [type |-> "ValueError"]
    /\ now' = now + 1
    /\ UNCHANGED <<messages, keep_last_screenshots, pre, tc, dump_idx, ret, winapi_calls,
                   last_content, step, max_steps, requests, dispatched, out,
                   execution_state, writes, captures, exports, handler, signals>>
    /\ UNCHANGED scanVars

\* _execution_state["logs_dir"] = logs_dir
StoreLogsDir ==
    /\ pc = "store_logs_dir"
    /\ handler = "none"
    /\ execution_state' = [execution_state EXCEPT !.logs_dir = SetTo(0)]
    /\ writes' = [writes EXCEPT !.logs_dir = @ + 1]
    /\ captures' = captures
    /\ pc' = "store_start_dt"
    /\ UNCHANGED <<messages, keep_last_screenshots, pre, tc, dump_idx, ret, winapi_calls,
                   last_content, step, max_steps, requests, dispatched, out,
                   now, exports, handler, signals, exc>>
    /\ UNCHANGED scanVars

\* _execution_state["start_dt"] = datetime.now()
StoreStartDt ==
    /\ pc = "store_start_dt"
    /\ handler = "none"
    /\ execution_state' = [execution_state EXCEPT !.start_dt = SetTo(now)]
    /\ writes' = [writes EXCEPT !.start_dt = @ + 1]
    /\ captures' = captures
    /\ pc' = "run_agent"
    /\ UNCHANGED <<messages, keep_last_screenshots, pre, tc, dump_idx, ret, winapi_calls,
                   last_content, step, max_steps, requests, dispatched, out,
                   now, exports, handler, signals, exc>>
    /\ UNCHANGED scanVars

\* run_agent up to the for loop
EnterRunAgent ==
    /\ pc = "run_agent"
    /\ handler = "none"
    /\ dump_idx' = DumpStart
    /\ messages' = << [role |-> "system", content |-> Str("system_prompt")],
                      [role |-> "user", content |-> Str("task_prompt")] >>
    /\ last_content' = Str("")
    /\ step' = 0
    /\ IF LoopContinues(0, max_steps)
       THEN pc' = "request" /\ out' = out
       ELSE pc' = "returned" /\ out' = Str("")
    /\ UNCHANGED <<keep_last_screenshots, pre, tc, ret, winapi_calls, max_steps,
                   requests, dispatched, execution_state, writes, captures, now, exports, handler,
                   signals, exc>>
    /\ UNCHANGED scanVars

\* one request answered: lines 80-120 of run_agent
ModelRequest ==
    /\ pc = "request"
    /\ handler = "none"
    /\ \E msg \in Responses(requests + 1) :
        LET candidate == NextCandidate(last_content, msg) IN
        /\ last_content' = candidate
        /\ IF msg.tool_calls = <<>>
           THEN /\ messages' = Append(messages, msg)
                /\ out' = candidate
                /\ pc' = "returned"
                /\ tc' = tc
           ELSE /\ messages' = Append(messages, msg) \o ExtraCallErrors(msg.tool_calls)
                /\ out' = out
                /\ pc' = "dispatch"
                /\ tc' = msg.tool_calls[1]
    /\ requests' = requests + 1
    /\ now' = now + 1
    /\ UNCHANGED <<keep_last_screenshots, pre, dump_idx, ret, winapi_calls, step,
                   max_steps, dispatched, execution_state, writes, captures, exports, handler, signals, exc>>
    /\ UNCHANGED scanVars

\* the except block of main up to the settle delay of the export
ExceptBlock(exception) ==
    /\ exc' = [type |-> exception, at |-> now + 1]
    /\ execution_state' = [execution_state EXCEPT !.end_dt = SetTo(now + 1)]
    /\ writes' = [writes EXCEPT !.end_dt = @ + 1]
    /\ exports' = HandleCleanup([execution_state EXCEPT !.end_dt = SetTo(now + 1)],
                                now + 1, TRUE, exports)
    /\ now' = now + 1
    /\ pc' = "exporting_failed"

\* one request fails: the exception leaves run_agent and reaches main's except
ModelFailure ==
    /\ pc = "request"
    /\ handler = "none"
    /\ \E failure \in ModelFailures : ExceptBlock(failure)
    /\ requests' = requests + 1
    /\ UNCHANGED <<messages, keep_last_screenshots, pre, tc, dump_idx, ret, winapi_calls,
                   last_content, step, max_steps, dispatched, out, captures, handler,
                   signals>>
    /\ UNCHANGED scanVars

\* the dispatch of the retained call: lines 123-130 of run_agent
Dispatch ==
    /\ pc = "dispatch"
    /\ handler = "none"
    /\ \E screen \in ScreenOutcomes :
        LET r == ExecuteTool(tc.name, tc.arguments, tc.id, dump_idx, screen) IN
        /\ dump_idx' = r.dump_idx
        /\ winapi_calls' = winapi_calls \o r.calls
        /\ IF r.raised
           THEN /\ ExceptBlock(r.exc)
                /\ UNCHANGED <<messages, step, out, captures>>
           ELSE /\ messages' =
                    IF r.user_msg # NoMsg
                    THEN PruneOldScreenshots(
                            Append(Append(messages, r.tool_msg), r.user_msg),
                            keep_last_screenshots)
                    ELSE Append(messages, r.tool_msg)
                /\ captures' = IF r.user_msg # NoMsg THEN captures + 1 ELSE captures
                /\ step' = step + 1
                /\ IF LoopContinues(step + 1, max_steps)
                   THEN pc' = "request" /\ out' = out
                   ELSE pc' = "returned" /\ out' = last_content
                /\ now' = now + 1
                /\ UNCHANGED <<execution_state, writes, exports, exc>>
    /\ dispatched' = Append(dispatched, tc)
    /\ UNCHANGED <<keep_last_screenshots, pre, tc, ret, last_content, max_steps,
                   requests, handler, signals>>
    /\ UNCHANGED scanVars

\* main after run_agent returned, up to the settle delay of the export
Complete ==
    /\ pc = "returned"
    /\ handler = "none"
    /\ execution_state' = [execution_state EXCEPT !.end_dt = SetTo(now)]
    /\ writes' = [writes EXCEPT !.end_dt = @ + 1]
    /\ captures' = captures
    /\ exports' = HandleCleanup([execution_state EXCEPT !.end_dt = SetTo(now)],
                                now, FALSE, exports)
    /\ pc' = "exporting"
    /\ UNCHANGED <<messages, keep_last_screenshots, pre, tc, dump_idx, ret, winapi_calls,
                   last_content, step, max_steps, requests, dispatched, out,
                   now, handler, signals, exc>>
    /\ UNCHANGED scanVars

\* the export of a completed run ends (its failure is caught); main returns
ExportEnd ==
    /\ pc = "exporting"
    /\ handler = "none"
    /\ \E r \in ExportResults :
        /\ exports' = EndExport(exports, r)
        /\ pc' = AfterCleanup(r, "done", exc).pc
        /\ exc' = AfterCleanup(r, "done", exc).exc
    /\ now' = now + 1
    /\ UNCHANGED <<messages, keep_last_screenshots, pre, tc, dump_idx, ret, winapi_calls,
                   last_content, step, max_steps, requests, dispatched, out,
                   execution_state, writes, captures, handler, signals>>
    /\ UNCHANGED scanVars

\* the export of a failed run ends (its failure is caught); main re-raises
ExportEndFailed ==
    /\ pc = "exporting_failed"
    /\ handler = "none"
    /\ \E r \in ExportResults :
        /\ exports' = EndExport(exports, r)
        /\ pc' = AfterCleanup(r, "raised", exc).pc
        /\ exc' = AfterCleanup(r, "raised", exc).exc
    /\ now' = now + 1
    /\ UNCHANGED <<messages, keep_last_screenshots, pre, tc, dump_idx, ret, winapi_calls,
                   last_content, step, max_steps, requests, dispatched, out,
                   execution_state, writes, captures, handler, signals>>
    /\ UNCHANGED scanVars

\* a termination signal arrives: _signal_handler up to the settle delay of its
\* export, or to sys.exit(1) when the export is skipped
Signal ==
    /\ pc \notin Terminal
    /\ signals < MaxSignals
    /\ signals' = signals + 1
    /\ exports' = HandleCleanup(execution_state, now, TRUE, exports)
    /\ IF exports' = exports
       THEN /\ pc' = "signal_exit"
            /\ handler' = "none"
            /\ exc' = [type |-> "SystemExit"]
       ELSE /\ pc' = pc
            /\ handler' = "exporting"
            /\ exc' = exc
    /\ UNCHANGED <<messages, keep_last_screenshots, pre, tc, dump_idx, ret, winapi_calls,
                   last_content, step, max_steps, requests, dispatched, out,
                   execution_state, writes, captures, now>>
    /\ UNCHANGED scanVars

\* the export of the signal handler ends (its failure is caught); sys.exit(1)
SignalExit ==
    /\ handler = "exporting"
    /\ \E r \in ExportResults : exports' = EndExport(exports, r)
    /\ now' = now + 1
    /\ pc' = "signal_exit"
    /\ handler' = "none"
    /\ exc' = [type |-> "SystemExit"]
    /\ UNCHANGED <<messages, keep_last_screenshots, pre, tc, dump_idx, ret, winapi_calls,
                   last_content, step, max_steps, requests, dispatched, out,
                   execution_state, writes, captures, signals>>
    /\ UNCHANGED scanVars

Next ==
    \/ Setup
    \/ StoreLogsDir
    \/ StoreStartDt
    \/ EnterRunAgent
    \/ ModelRequest
    \/ ModelFailure
    \/ Dispatch
    \/ Complete
    \/ ExportEnd
    \/ ExportEndFailed
    \/ Signal
    \/ SignalExit

Spec == Init /\ [][Next]_vars

\* a run that no termination signal interrupts
UninterruptedNext ==
    \/ Setup
    \/ StoreLogsDir
    \/ StoreStartDt
    \/ EnterRunAgent
    \/ ModelRequest
    \/ ModelFailure
    \/ Dispatch
    \/ Complete
    \/ ExportEnd
    \/ ExportEndFailed

\* the process keeps running: no step that can be taken is put off for ever
FairSpec == Init /\ [][UninterruptedNext]_vars /\ WF_vars(UninterruptedNext)

(***************************************************************************)
(* main.py: the log record scanner.  A line is a record: its leading       *)
(* bracketed timestamp, its marker and the characters after them.  The     *)
(* text of a line is a sequence of characters; the timestamp prefix and    *)
(* the marker are each kept as one element, since none of their characters *)
(* is a backslash, a double quote or a brace.                              *)
(***************************************************************************)
MaxLines == 3
WindowSlack == 2

NoTs == [k |-> "none"]
BadTs == [k |-> "bad"]
GoodTs(t) == [k |-> "good", t |-> t]

Line(ts, marker, body) == [ts |-> ts, marker |-> marker, body |-> body]
Plain(body) == Line(NoTs, "none", body)

TsText(ts) ==
    IF ts.k = "none" THEN <<>>
    ELSE IF ts.k = "bad" THEN <<"[2026-13-01 00:00:00]">>
    ELSE <<"[2026-01-01 00:00:0", ToString(ts.t), "]">>

MarkerText(marker) ==
    IF marker = "req" THEN <<"Received request: POST to /v1/chat/completions with body", " ">>
    ELSE IF marker = "resp" THEN <<"Generated prediction:", " ">>
    ELSE <<>>

\* the characters of a line as the file holds them
Text(line) == TsText(line.ts) \o MarkerText(line.marker) \o line.body

Texts(ls) == [k \in 1..Len(ls) |-> Text(ls[k])]

\* "\n".join(json_lines)
RECURSIVE JoinLines(_)
JoinLines(texts) ==
    IF texts = <<>> THEN <<>>
    ELSE IF Len(texts) = 1 THEN texts[1]
    ELSE texts[1] \o <<"\n">> \o JoinLines(Tail(texts))

(***************************************************************************)
(* json.loads on such a text.  With the characters of the model a value is *)
(* a string or an object; anything else is a JSONDecodeError.              *)
(***************************************************************************)
NoObj == [t |-> "None"]
JsonStr(chars) == [t |-> "string", s |-> chars]
JsonObj(members) == [t |-> "object", members |-> members]
ParseFail == [ok |-> FALSE]
Parsed(v, p) == [ok |-> TRUE, v |-> v, p |-> p]

Whitespace == {" ", "\n"}
Escapable == {"\"", "\\", "/"}

RECURSIVE SkipWs(_, _)
SkipWs(s, p) ==
    IF p <= Len(s) /\ s[p] \in Whitespace THEN SkipWs(s, p + 1) ELSE p

\* the string whose opening quote is before position p
RECURSIVE ParseString(_, _, _)
ParseString(s, p, acc) ==
    IF p > Len(s) THEN ParseFail
    ELSE IF s[p] = "\"" THEN Parsed(JsonStr(acc), p + 1)
    ELSE IF s[p] = "\\"
         THEN IF p + 1 <= Len(s) /\ s[p + 1] \in Escapable
              THEN ParseString(s, p + 2, Append(acc, s[p + 1]))
              ELSE ParseFail
    ELSE IF s[p] = "\n" THEN ParseFail
    ELSE ParseString(s, p + 1, Append(acc, s[p]))

\* a dict keeps one value for a key, at the place of its first occurrence
DictSet(members, key, v) ==
    IF \E k \in 1..Len(members) : members[k].key = key
    THEN [k \in 1..Len(members) |->
            IF members[k].key = key THEN [key |-> key, v |-> v] ELSE members[k]]
    ELSE Append(members, [key |-> key, v |-> v])

RECURSIVE ParseValue(_, _)
RECURSIVE ParseMembers(_, _, _)

\* the members of an object from position p, where a key has to start
ParseMembers(s, p, members) ==
    IF p > Len(s) \/ s[p] # "\"" THEN ParseFail
    ELSE LET key == ParseString(s, p + 1, <<>>) IN
         IF ~key.ok THEN ParseFail
         ELSE LET colon == SkipWs(s, key.p) IN
              IF colon > Len(s) \/ s[colon] # ":" THEN ParseFail
              ELSE LET val == ParseValue(s, SkipWs(s, colon + 1)) IN
                   IF ~val.ok THEN ParseFail
                   ELSE LET after == SkipWs(s, val.p)
                            dict == DictSet(members, key.v.s, val.v)
                        IN IF after > Len(s) THEN ParseFail
                           ELSE IF s[after] = "}" THEN Parsed(JsonObj(dict), after + 1)
                           ELSE IF s[after] = ","
                                THEN ParseMembers(s, SkipWs(s, after + 1), dict)
                           ELSE ParseFail

\* the value that starts at position p
ParseValue(s, p) ==
    IF p > Len(s) THEN ParseFail
    ELSE IF s[p] = "\"" THEN ParseString(s, p + 1, <<>>)
    ELSE IF s[p] = "{"
         THEN LET first == SkipWs(s, p + 1) IN
              IF first <= Len(s) /\ s[first] = "}" THEN Parsed(JsonObj(<<>>), first + 1)
              ELSE ParseMembers(s, first, <<>>)
    ELSE ParseFail

\* json.loads(text), with None for a JSONDecodeError
JsonLoads(s) ==
    LET val == ParseValue(s, SkipWs(s, 1)) IN
    IF val.ok /\ SkipWs(s, val.p) = Len(s) + 1 THEN val.v ELSE NoObj

(***************************************************************************)
(* _extract_json_from_position.                                            *)
(***************************************************************************)
ScanStart == [brace_count |-> 0, in_string |-> FALSE, escape_next |-> FALSE]

\* a mutant of ScanChar: a backslash does not protect the character after it
ScanCharNoEscape(st, ch) ==
    LET in_string == IF ch = "\"" THEN ~st.in_string ELSE st.in_string IN
    [st EXCEPT !.in_string = in_string,
               !.brace_count = IF in_string THEN @
                               ELSE IF ch = "{" THEN @ + 1
                               ELSE IF ch = "}" THEN @ - 1
                               ELSE @]

\* the body of `for ch in line`
ScanChar(st, ch) ==
    IF st.escape_next THEN [st EXCEPT !.escape_next = FALSE]
    ELSE IF ch = "\\" THEN [st EXCEPT !.escape_next = TRUE]
    ELSE LET in_string == IF ch = "\"" THEN ~st.in_string ELSE st.in_string IN
         [st EXCEPT !.in_string = in_string,
                    !.brace_count = IF in_string THEN @
                                    ELSE IF ch = "{" THEN @ + 1
                                    ELSE IF ch = "}" THEN @ - 1
                                    ELSE @]

\* `for ch in line` from the k-th character on
RECURSIVE ScanLine(_, _, _)
ScanLine(st, text, k) ==
    IF k > Len(text) THEN st ELSE ScanLine(ScanChar(st, text[k]), text, k + 1)

\* a mutant of ExtractResult: the index of the last line, not the one after it
ExtractResultNoAdvance(json_lines, i) ==
    [obj |-> JsonLoads(JoinLines(json_lines)), next |-> i]

\* the try block: the parsed text or None, and the next index
ExtractResult(json_lines, i) ==
    [obj |-> JsonLoads(JoinLines(json_lines)), next |-> i + 1]

\* a mutant of ExtractLoop: the depth test is left out on the line at index 0
RECURSIVE ExtractLoopNotAtZero(_, _, _, _)
ExtractLoopNotAtZero(texts, i, st, json_lines) ==
    IF ~(i < Len(texts)) THEN ExtractResult(json_lines, i)
    ELSE LET after == ScanLine(st, texts[i + 1], 1)
             taken == Append(json_lines, texts[i + 1])
         IN IF after.brace_count = 0 /\ i # 0
            THEN ExtractResult(taken, i)
            ELSE ExtractLoopNotAtZero(texts, i + 1, after, taken)

\* the while loop from index i on (i counts from 0)
RECURSIVE ExtractLoop(_, _, _, _)
ExtractLoop(texts, i, st, json_lines) ==
    IF ~(i < Len(texts)) THEN ExtractResult(json_lines, i)
    ELSE LET after == ScanLine(st, texts[i + 1], 1)
             taken == Append(json_lines, texts[i + 1])
         IN IF after.brace_count = 0 /\ taken # <<>>
            THEN ExtractResult(taken, i)
            ELSE ExtractLoop(texts, i + 1, after, taken)

ExtractJsonFromPosition(texts, start_idx) ==
    ExtractLoop(texts, start_idx, ScanStart, <<>>)

(***************************************************************************)
(* _export_and_clean_current_run and _clean_log_file on one source log.    *)
(***************************************************************************)
\* line bodies: {"a":"x\"y"}  {"a":"}{"}  {  }  {}  }{  {"a":"  "}  (empty)  a
\* {"a\  "a":{}  {}{
EscapedQuoteBody == <<"{", "\"", "a", "\"", ":", "\"", "x", "\\", "\"", "y", "\"", "}">>
BracesInStringBody == <<"{", "\"", "a", "\"", ":", "\"", "}", "{", "\"", "}">>
OpenStringBody == <<"{", "\"", "a", "\"", ":", "\"">>
PlainBodies ==
    { EscapedQuoteBody, BracesInStringBody,
      <<"{">>, <<"}">>, <<"{", "}">>, <<"}", "{">>,
      OpenStringBody, <<"\"", "}">>, <<>>, <<"a">>,
      <<"{", "\"", "a", "\\">>,
      <<"\"", "a", "\"", ":", "{", "}">>,
      <<"{", "}", "{">> }

\* lines without timestamp and marker: the arguments of the scanner alone
PlainLines == {Plain(b) : b \in PlainBodies}

\* the session of the export: _execution_state at the call
SessionState == [logs_dir |-> SetTo(0), start_dt |-> SetTo(3), end_dt |-> SetTo(4)]
WindowT0(es) == es.start_dt.v - WindowSlack
WindowT1(es) == es.end_dt.v + WindowSlack

\* the lines of a backend log: marker lines in and out of the window, with a
\* bad or no timestamp, with and without a body, and lines that continue a record
LogLines ==
    { Line(GoodTs(WindowT0(SessionState)), "req", EscapedQuoteBody),
      Line(GoodTs(WindowT1(SessionState)), "resp", <<"{">>),
      Line(GoodTs(WindowT1(SessionState) + 1), "req", <<"{", "}">>),
      Line(GoodTs(WindowT0(SessionState) - 1), "resp", <<"{", "}">>),
      Line(BadTs, "resp", <<"{", "}">>),
      Line(NoTs, "req", OpenStringBody),
      Line(GoodTs(WindowT0(SessionState)), "resp", <<>>),
      Plain(<<"}">>),
      Plain(<<"\"", "a", "\"", ":", "{", "}">>),
      Plain(<<"a">>) }

\* _parse_log_ts(line): the time of a well-formed leading timestamp, else None
ParseLogTs(line) == IF line.ts.k = "good" THEN line.ts ELSE NoTs

\* line.find("{"): the position of the first brace of the text, 0 for none
RECURSIVE FindBrace(_, _)
FindBrace(text, k) ==
    IF k > Len(text) THEN 0
    ELSE IF text[k] = "{" THEN k
    ELSE FindBrace(text, k + 1)

\* [first_line] + lines[i + 1:], with first_line the text from its first brace
\* on (the empty text when there is none)
TempLines(ls, i) ==
    LET text == Text(ls[i + 1])
        brace_pos == FindBrace(text, 1)
        first_line == IF brace_pos = 0 THEN <<>> ELSE SubSeq(text, brace_pos, Len(text))
    IN <<first_line>> \o Texts(SubSeq(ls, i + 2, Len(ls)))

\* a mutant of PySlice: lines[i : i + offset - 1], the last line is left out
PySliceShort(ls, i, offset) == SubSeq(ls, i + 1, Min(Len(ls), i + offset - 1))

\* lines[i : i + offset]
PySlice(ls, i, offset) == SubSeq(ls, i + 1, Min(Len(ls), i + offset))

\* content.split("\n") of the text "\n".join(picked)
JoinSplit(ls) == IF ls = <<>> THEN <<Plain(<<>>)>> ELSE ls

\* re.search(r"<marker> (\{.*)$", line)
CleanMarker(line, marker) ==
    /\ line.marker = marker
    /\ line.body # <<>>
    /\ line.body[1] = "{"

\* re.match(r"\[([^\]]+)\]", line): the bracketed prefix, else "TIMESTAMP"
CleanTimestamp(line) == IF line.ts.k = "none" THEN [k |-> "TIMESTAMP"] ELSE line.ts

\* f"\n{'='*80}" and "=" * 80
RuleOpen == [kind |-> "rule", text |-> "\n=...="]
Rule == [kind |-> "rule", text |-> "=...="]
Header(timestamp, direction) ==
    [kind |-> "header", timestamp |-> timestamp, direction |-> direction]
Dumped(obj) == [kind |-> "json", obj |-> obj]
ErrorMarker == [kind |-> "error", text |-> "[ERROR: Could not parse JSON]"]

\* one iteration of the while loop of _clean_log_file on a marker line
CleanRecord(ls, i, direction) ==
    LET r == ExtractJsonFromPosition(TempLines(ls, i), 0)
        banner == <<RuleOpen, Header(CleanTimestamp(ls[i + 1]), direction), Rule>>
    IN IF r.obj # NoObj
       THEN [cleaned |-> banner \o <<Dumped(r.obj)>>, i |-> i + r.next]
       ELSE [cleaned |-> banner \o <<ErrorMarker>>, i |-> i + 1]

ScanInit ==
    /\ pc = "scan"
    /\ log_lines = <<>>
    /\ execution_state = SessionState
    /\ writes = NoWrites
    /\ captures = 0
    /\ scan_i = 0
    /\ iterations = 0
    /\ picked = <<>>
    /\ records = <<>>
    /\ raw_lines = <<>>
    /\ cleaned = <<>>
    /\ ext = NoExt
    /\ messages = <<>>
    /\ keep_last_screenshots = 0
    /\ pre = 0
    /\ ToolIdle
    /\ last_content = Str("")
    /\ step = 0
    /\ max_steps = 0
    /\ requests = 0
    /\ dispatched = <<>>
    /\ out = NoOut
    /\ now = 0
    /\ exports = <<>>
    /\ handler = "none"
    /\ signals = 0
    /\ exc = NoExc

agentVars == <<messages, keep_last_screenshots, pre, tc, dump_idx, ret, winapi_calls,
               last_content, step, max_steps, requests, dispatched, out,
               execution_state, writes, captures, now, exports, handler, signals, exc>>

\* ts is not None and t0 <= ts <= t1
InWindow(ts, es) ==
    /\ ts # NoTs
    /\ WindowT0(es) <= ts.t
    /\ ts.t <= WindowT1(es)

\* the line sequences of the model: lines for the scanner alone, or a backend log
ModelLogs == SeqsUpTo(PlainLines, MaxLines) \cup SeqsUpTo(LogLines, MaxLines)

\* one call of the scanner on some lines, from any start index
ExtractCall ==
    /\ pc = "scan"
    /\ \E ls \in ModelLogs : \E start_idx \in 0..(Len(ls) + 1) :
        LET r == ExtractJsonFromPosition(Texts(ls), start_idx) IN
        /\ log_lines' = ls
        /\ ext' = [called |-> TRUE, start_idx |-> start_idx, obj |-> r.obj, next |-> r.next]
    /\ pc' = "extracted"
    /\ UNCHANGED <<scan_i, iterations, picked, records, raw_lines, cleaned>>
    /\ UNCHANGED agentVars

\* _export_and_clean_current_run up to its while loop: the source log is read
ExportRead ==
    /\ pc = "scan"
    /\ \E ls \in ModelLogs : log_lines' = ls
    /\ pc' = "export"
    /\ scan_i' = 0
    /\ iterations' = 0
    /\ picked' = <<>>
    /\ records' = <<>>
    /\ UNCHANGED <<raw_lines, cleaned, ext>>
    /\ UNCHANGED agentVars

\* one iteration of the while loop of _export_and_clean_current_run
ExportIter ==
    /\ pc = "export"
    /\ scan_i < Len(log_lines)
    /\ LET line == log_lines[scan_i + 1] IN
       IF line.marker = "none"
       THEN /\ scan_i' = scan_i + 1
            /\ picked' = picked
            /\ records' = records
       ELSE LET ts == ParseLogTs(line)
                found == FindBrace(Text(line), 1) # 0
                r == ExtractJsonFromPosition(TempLines(log_lines, scan_i), 0)
                offset == IF found THEN Max(1, r.next) ELSE 1
                retained == InWindow(ts, execution_state)
            IN /\ picked' =
                    IF retained
                    THEN picked \o PySlice(log_lines, scan_i, offset)
                    ELSE picked
               /\ records' = Append(records, [start |-> scan_i, offset |-> offset,
                                               retained |-> retained])
               /\ scan_i' = scan_i + offset
    /\ iterations' = iterations + 1
    /\ UNCHANGED <<pc, log_lines, raw_lines, cleaned, ext>>
    /\ UNCHANGED agentVars

\* the raw artifact is written and _clean_log_file reads it back
ExportWrite ==
    /\ pc = "export"
    /\ ~(scan_i < Len(log_lines))
    /\ raw_lines' = JoinSplit(picked)
    /\ cleaned' = <<>>
    /\ scan_i' = 0
    /\ iterations' = 0
    /\ pc' = "clean"
    /\ UNCHANGED <<log_lines, picked, records, ext>>
    /\ UNCHANGED agentVars

\* one iteration of the while loop of _clean_log_file
CleanIter ==
    /\ pc = "clean"
    /\ scan_i < Len(raw_lines)
    /\ LET line == raw_lines[scan_i + 1] IN
       IF CleanMarker(line, "req")
       THEN LET c == CleanRecord(raw_lines, scan_i, "REQUEST TO MODEL") IN
            cleaned' = cleaned \o c.cleaned /\ scan_i' = c.i
       ELSE IF CleanMarker(line, "resp")
       THEN LET c == CleanRecord(raw_lines, scan_i, "RESPONSE FROM MODEL") IN
            cleaned' = cleaned \o c.cleaned /\ scan_i' = c.i
       ELSE cleaned' = cleaned /\ scan_i' = scan_i + 1
    /\ iterations' = iterations + 1
    /\ UNCHANGED <<pc, log_lines, picked, records, raw_lines, ext>>
    /\ UNCHANGED agentVars

\* the cleaned artifact is written
CleanWrite ==
    /\ pc = "clean"
    /\ ~(scan_i < Len(raw_lines))
    /\ pc' = "cleaned"
    /\ UNCHANGED <<log_lines, scan_i, iterations, picked, records, raw_lines, cleaned, ext>>
    /\ UNCHANGED agentVars

ScanNext ==
    \/ ExtractCall
    \/ ExportRead
    \/ ExportIter
    \/ ExportWrite
    \/ CleanIter
    \/ CleanWrite

ScanSpec == ScanInit /\ [][ScanNext]_vars

(***************************************************************************)
(* C1: with N image-bearing user messages and threshold K >= 0, pruning    *)
(* changes nothing when N <= K, and when N > K it replaces the content of  *)
(* exactly the N-K earliest of them and leaves the K most recent intact    *)
(* (K = 0: all N are replaced).                                            *)
(***************************************************************************)
C1_PruneReplacesEarliest ==
    pc = "pruned" =>
        LET idxs == ImageIdxs(pre)
            N == Len(idxs)
            K == keep_last_screenshots
        IN /\ Len(messages) = Len(pre)
           /\ N <= K => messages = pre
           /\ N > K =>
                \A i \in 1..Len(pre) :
                    IF \E k \in 1..(N - K) : idxs[k] = i
                    THEN messages[i].content # pre[i].content
                    ELSE messages[i] = pre[i]

(***************************************************************************)
(* Reading a tool message: the error kind and message of its payload.      *)
(***************************************************************************)
IsToolError(m, kind) ==
    /\ m.role = "tool"
    /\ "json" \in DOMAIN m.content
    /\ m.content.json.ok = FALSE
    /\ m.content.json.error.type = kind

\* the argument string does not decode as JSON, or decodes to a non-object
ArgMalformed(a) ==
    /\ a.t = "str"
    /\ a.s # ""
    /\ \/ JsonLoadsArg(a.s) = DecodeError
       \/ JsonLoadsArg(a.s).t # "object"

(***************************************************************************)
(* C6: for each of the five recognized tools, an argument string that does *)
(* not decode as JSON, or decodes to a non-object, yields a tool message   *)
(* of error kind invalid_arguments, no observation message and no          *)
(* collaborator invocation; an empty or absent argument string gives what  *)
(* the argument string "{}" gives.                                         *)
(***************************************************************************)
C6_MalformedArgumentsRejected ==
    (pc = "tool_done" /\ tc.name \in RecognizedTools) =>
        /\ ArgMalformed(tc.arguments) =>
            /\ ret.raised = FALSE
            /\ IsToolError(ret.tool_msg, "invalid_arguments")
            /\ ret.user_msg = NoMsg
            /\ winapi_calls = <<>>
        /\ tc.arguments \in {ArgAbsent, ArgStr("")} =>
            \E screen \in ScreenOutcomes :
                ret = ExecuteTool(tc.name, ArgStr("{}"), tc.id, pre, screen)

(***************************************************************************)
(* C7: for a tool name outside the five recognized ones and any argument   *)
(* value, execute_tool returns a tool message of error kind unknown_tool   *)
(* whose message is the tool name and whose tool_call_id and name are the  *)
(* call's, no observation message, no collaborator invocation and an       *)
(* unchanged artifact index.                                               *)
(***************************************************************************)
C7_UnknownToolReported ==
    (pc = "tool_done" /\ tc.name \notin RecognizedTools) =>
        /\ ret.raised = FALSE
        /\ IsToolError(ret.tool_msg, "unknown_tool")
        /\ ret.tool_msg.content.json.error.message = tc.name
        /\ ret.tool_msg.tool_call_id = tc.id
        /\ ret.tool_msg.name = tc.name
        /\ ret.user_msg = NoMsg
        /\ winapi_calls = <<>>
        /\ dump_idx = pre

C7_Witness ==
    /\ pc = "tool_done"
    /\ tc.name = "bogus"
    /\ tc.arguments = ArgStr("{")
    /\ IsToolError(ret.tool_msg, "unknown_tool")

(***************************************************************************)
(* Reading the history of a run.                                           *)
(***************************************************************************)
IsAssistant(m) == m.role = "assistant"

\* the assistant messages of the history, in order: one for each answered request
AssistantMessages == SelectSeq(messages, IsAssistant)

AssistantIdxs == {i \in 1..Len(messages) : IsAssistant(messages[i])}

\* the last position of the turn that the assistant message at position a opens
TurnEnd(a) ==
    IF \E b \in AssistantIdxs : b > a
    THEN (CHOOSE b \in AssistantIdxs : b > a /\ \A c \in AssistantIdxs : c > a => b <= c) - 1
    ELSE Len(messages)

\* the positions in the turn opened at a that hold a too_many_tool_calls rejection
Rejections(a) ==
    {i \in (a + 1)..TurnEnd(a) : IsToolError(messages[i], "too_many_tool_calls")}

HasText(m) == m.content.kind = "str" /\ m.content # Str("")

MostRecentText ==
    LET withText == SelectSeq(AssistantMessages, HasText) IN
    IF withText = <<>> THEN Str("") ELSE withText[Len(withText)].content

C3_ReturnsLastNonEmptyText ==
    out # NoOut => out = MostRecentText

(***************************************************************************)
(* C4: run_agent makes at most max_steps requests and at most max_steps    *)
(* dispatches, stops at the first assistant message without tool calls,    *)
(* otherwise after exactly max_steps turns, makes no request and returns   *)
(* the empty string when max_steps <= 0; and the process always reaches an *)
(* end.                                                                    *)
(***************************************************************************)
AllRequestTools ==
    \A j \in 1..Len(AssistantMessages) : AssistantMessages[j].tool_calls # <<>>

C4_Bounded ==
    /\ requests <= Max(0, max_steps)
    /\ Len(dispatched) <= Max(0, max_steps)
    /\ \A a \in AssistantIdxs :
        messages[a].tool_calls = <<>> => a = Len(messages) /\ out # NoOut
    /\ out # NoOut =>
        \/ /\ Len(AssistantMessages) > 0
           /\ messages[Len(messages)].role = "assistant"
           /\ messages[Len(messages)].tool_calls = <<>>
        \/ /\ max_steps > 0
           /\ AllRequestTools
           /\ requests = max_steps
           /\ Len(dispatched) = max_steps
           /\ step = max_steps
        \/ /\ max_steps <= 0
           /\ requests = 0
           /\ dispatched = <<>>
           /\ out = Str("")

C4_RunTerminates == []C4_Bounded /\ <>(pc \in Terminal)

C4_Witness ==
    /\ pc = "done"
    /\ max_steps = MaxSteps
    /\ requests = max_steps
    /\ Len(dispatched) = max_steps

(***************************************************************************)
(* C5: when a model-service call fails and no termination signal arrives,  *)
(* the run aborts at that call: no request and no dispatch follows, the    *)
(* export is attempted once with the end time stamped at the failure, and  *)
(* the failure itself leaves main, whatever the export did.                *)
(***************************************************************************)
ModelFailed == exc.type \in ModelFailures

C5_FailedState ==
    (ModelFailed /\ signals = 0) =>
        /\ pc \in {"exporting_failed", "raised"}
        /\ requests = Len(AssistantMessages) + 1
        /\ Len(exports) = 1
        /\ exports[1].interrupted = TRUE
        /\ exports[1].end_dt = exc.at
        /\ execution_state.end_dt = SetTo(exc.at)
        /\ pc = "raised" <=> exports[1].result # "running"

C5_FailedStep ==
    ModelFailed =>
        /\ requests' = requests
        /\ dispatched' = dispatched
        /\ winapi_calls' = winapi_calls
        /\ messages' = messages
        /\ signals' = 0 => exc' = exc

C5_ModelFailureAborts == []C5_FailedState /\ [][C5_FailedStep]_vars

C5_Witness ==
    /\ pc = "raised"
    /\ exc.type = "timeout"
    /\ signals = 0
    /\ Len(dispatched) > 0
    /\ exports[1].result = "FileNotFoundError"

(***************************************************************************)
(* C8: an error local to one tool call (invalid arguments, an unknown      *)
(* tool, more than one call in a turn, a failure of the collaborator or of *)
(* the artifact write) never aborts the run: every call handed to          *)
(* execute_tool gets its tool-role result message in the history and the   *)
(* run goes on.                                                            *)
(***************************************************************************)
DispatchExceptions == {"RuntimeError", "OSError", "OverflowError"}

C8_ToolErrorsNeverAbort ==
    /\ exc.type \notin DispatchExceptions
    /\ \A j \in 1..Len(dispatched) :
        \E i \in 1..Len(messages) :
            /\ messages[i].role = "tool"
            /\ messages[i].tool_call_id = dispatched[j].id
            /\ messages[i].name = dispatched[j].name

(***************************************************************************)
(* Reading one call of the scanner: the characters its for loop went       *)
(* through, each with the scanner state before and after it.               *)
(***************************************************************************)
RECURSIVE Concat(_)
Concat(texts) == IF texts = <<>> THEN <<>> ELSE texts[1] \o Concat(Tail(texts))

RECURSIVE ScanSteps(_, _, _)
ScanSteps(st, text, k) ==
    IF k > Len(text) THEN <<>>
    ELSE <<[before |-> st, ch |-> text[k], after |-> ScanChar(st, text[k])]>>
         \o ScanSteps(ScanChar(st, text[k]), text, k + 1)

\* the lines the call consumed: from its start index up to the returned one
Consumed == SubSeq(Texts(log_lines), ext.start_idx + 1, Min(Len(log_lines), ext.next))

ExtSteps == ScanSteps(ScanStart, Concat(Consumed), 1)

(***************************************************************************)
(* C9: in _extract_json_from_position a brace changes the depth only       *)
(* outside a string (and then by one), an escaped double quote does not    *)
(* toggle the in-string flag while an unescaped one does, and the          *)
(* character after a backslash is always skipped; a line that holds one    *)
(* complete JSON object (with an escaped quote or braces inside a string   *)
(* value too) is extracted as that object and is the only line consumed.   *)
(***************************************************************************)
C9_ScannerTracksStrings ==
    pc = "extracted" =>
        /\ \A k \in 1..Len(ExtSteps) :
            LET b == ExtSteps[k].before
                a == ExtSteps[k].after
                ch == ExtSteps[k].ch
            IN /\ a.brace_count # b.brace_count =>
                    /\ ~b.in_string
                    /\ ~b.escape_next
                    /\ ch \in {"{", "}"}
               /\ (~b.in_string /\ ~b.escape_next /\ ch = "{") =>
                    a.brace_count = b.brace_count + 1
               /\ (~b.in_string /\ ~b.escape_next /\ ch = "}") =>
                    a.brace_count = b.brace_count - 1
               /\ b.escape_next => a = [b EXCEPT !.escape_next = FALSE]
               /\ (~b.escape_next /\ ch = "\\") =>
                    a = [b EXCEPT !.escape_next = TRUE]
               /\ (~b.escape_next /\ ch = "\"") => a.in_string = ~b.in_string
               /\ (~b.escape_next /\ ch # "\"") => a.in_string = b.in_string
        /\ ext.start_idx < Len(log_lines) =>
            LET alone == JsonLoads(Text(log_lines[ext.start_idx + 1])) IN
            alone.t = "object" =>
                /\ ext.obj = alone
                /\ ext.next = ext.start_idx + 1

C9_Witness ==
    /\ pc = "extracted"
    /\ Len(log_lines) >= 3
    /\ ext.start_idx = 1
    /\ log_lines[1] = Plain(BracesInStringBody)
    /\ log_lines[2] = Plain(EscapedQuoteBody)
    /\ log_lines[3] = Plain(<<"}">>)
    /\ ext.next = 2
    /\ ext.obj = JsonObj(<<[key |-> <<"a">>, v |-> JsonStr(<<"x", "\"", "y">>)]>>)

(***************************************************************************)
(* C10: _extract_json_from_position returns a next index greater than its  *)
(* start index for every line sequence and every start index from 0 on     *)
(* (unbalanced braces, an unterminated string, a start at or past the end  *)
(* included); every iteration of the scanning loops of                     *)
(* _export_and_clean_current_run and _clean_log_file moves the cursor      *)
(* forward, so that neither loop makes more iterations than its input has  *)
(* lines.                                                                  *)
(***************************************************************************)
C10_Advanced ==
    /\ pc = "extracted" => ext.next > ext.start_idx
    /\ pc = "export" =>
        /\ iterations <= scan_i
        /\ scan_i <= Len(log_lines) + 1
        /\ iterations <= Len(log_lines)
    /\ pc = "clean" =>
        /\ iterations <= scan_i
        /\ scan_i <= Len(raw_lines) + 1
        /\ iterations <= Len(raw_lines)

C10_Step == (pc \in {"export", "clean"} /\ pc' = pc) => scan_i' > scan_i

C10_ScannerAdvances == []C10_Advanced /\ [][C10_Step]_vars

C10_Witness ==
    /\ pc = "cleaned"
    /\ Len(log_lines) >= 3
    /\ log_lines[1].marker = "resp"
    /\ log_lines[1].body = <<"{">>
    /\ log_lines[2].marker = "req"
    /\ log_lines[2].body = OpenStringBody
    /\ raw_lines = log_lines
    /\ iterations = Len(raw_lines)
    /\ Len(cleaned) = 8
    /\ cleaned[4] = ErrorMarker
    /\ cleaned[8] = ErrorMarker

(***************************************************************************)
(* C11: re-extraction is idempotent.  When a call on lines L from start    *)
(* index s returned (obj, n), a call from index 0 on the span L[s..n-1]    *)
(* returns the same obj (the same object, or None again) and consumes the  *)
(* whole span: its next index is n - s, not less than the span's length.   *)
(***************************************************************************)
C11_ReextractionIdempotent ==
    pc = "extracted" =>
        LET again == ExtractJsonFromPosition(Consumed, 0) IN
        /\ again.obj = ext.obj
        /\ again.next = ext.next - ext.start_idx
        /\ again.next >= Len(Consumed)

C11_Witness ==
    /\ pc = "extracted"
    /\ Len(log_lines) = 3
    /\ log_lines[2] = Plain(<<"{">>)
    /\ log_lines[3] = Plain(<<"}">>)
    /\ ext.start_idx = 1
    /\ ext.next = 3
    /\ ext.obj = JsonObj(<<>>)
    /\ ExtractJsonFromPosition(Consumed, 0).obj = JsonObj(<<>>)

(***************************************************************************)
(* Reading the export pass once its loop is over.                          *)
(***************************************************************************)
ExportLoopOver == pc \in {"clean", "cleaned"}

\* the source positions (from 0) of the marker lines
MarkerIdxs == {k \in 0..(Len(log_lines) - 1) : log_lines[k + 1].marker # "none"}

\* the marker line at position k started a record that the pass retained
StartsRetained(k) ==
    \E j \in 1..Len(records) : records[j].start = k /\ records[j].retained

(***************************************************************************)
(* C12: a marker line of the source log starts a retained record if and    *)
(* only if its leading timestamp parses and lies in the closed interval    *)
(* [start_time - 2s, end_time + 2s]; a marker line with a missing or       *)
(* unparseable timestamp never starts a retained record.                   *)
(***************************************************************************)
C12_RetainedIffInWindow ==
    ExportLoopOver =>
        \A k \in MarkerIdxs :
            StartsRetained(k) <=> InWindow(ParseLogTs(log_lines[k + 1]), execution_state)

(***************************************************************************)
(* Reading the records of the export pass: what the scanner reports for    *)
(* the record that starts at source position k, and the retained records.  *)
(***************************************************************************)
\* the lines the scanner consumes for the record at k: the next index it
\* returns on [first_line] + lines[k + 1:], one line when there is no brace
ConsumedCount(k) ==
    IF FindBrace(Text(log_lines[k + 1]), 1) = 0 THEN 1
    ELSE ExtractJsonFromPosition(TempLines(log_lines, k), 0).next

IsRetained(r) == r.retained

RetainedRecords == SelectSeq(records, IsRetained)

\* the source lines of record r, in source order
RecordLines(r) == SubSeq(log_lines, r.start + 1, Min(Len(log_lines), r.start + r.offset))

RECURSIVE LinesOf(_)
LinesOf(rs) == IF rs = <<>> THEN <<>> ELSE RecordLines(rs[1]) \o LinesOf(Tail(rs))

(***************************************************************************)
(* C13: the raw artifact holds, for every retained record, exactly the     *)
(* source lines the scanner reported as consumed for it (the marker line   *)
(* and its continuation lines), unmodified and in source order, whether    *)
(* or not its JSON parsed, and the retained records follow each other in   *)
(* the order of the source log; it holds nothing else.                     *)
(***************************************************************************)
C13_RawHoldsRetainedRecords ==
    ExportLoopOver =>
        /\ \A j \in 1..Len(records) :
            /\ log_lines[records[j].start + 1].marker # "none"
            /\ records[j].offset = ConsumedCount(records[j].start)
            /\ j > 1 => records[j].start >= records[j - 1].start + records[j - 1].offset
        /\ picked = LinesOf(RetainedRecords)
        /\ picked # <<>> => raw_lines = picked
        /\ picked = <<>> => raw_lines = <<Plain(<<>>)>>

C13_Witness ==
    /\ pc = "cleaned"
    /\ Len(log_lines) = 3
    /\ log_lines[1].marker = "resp"
    /\ log_lines[1].body = <<"{">>
    /\ log_lines[2] = Plain(<<"a">>)
    /\ log_lines[3] = Plain(<<"}">>)
    /\ Len(RetainedRecords) = 1
    /\ raw_lines = log_lines
    /\ cleaned[4] = ErrorMarker

(***************************************************************************)
(* Reading the cleaned artifact: its banners, in order.                    *)
(***************************************************************************)
HeaderIdxs == {p \in 1..Len(cleaned) : cleaned[p].kind = "header"}

IsHeader(e) == e.kind = "header"

Headers == SelectSeq(cleaned, IsHeader)

DirectionOf(marker) ==
    IF marker = "req" THEN "REQUEST TO MODEL" ELSE "RESPONSE FROM MODEL"

(***************************************************************************)
(* C14: the cleaned artifact has exactly one banner for each record the    *)
(* window pass retained, in the order of the records and with the          *)
(* direction and the timestamp of the record's marker line, and each       *)
(* banner is followed by the pretty-printed JSON or by the error marker;   *)
(* a record that does not parse neither removes nor adds a banner.         *)
(***************************************************************************)
C14_OneBannerPerRecord ==
    pc = "cleaned" =>
        /\ Len(Headers) = Len(RetainedRecords)
        /\ \A j \in 1..Min(Len(Headers), Len(RetainedRecords)) :
            LET line == log_lines[RetainedRecords[j].start + 1] IN
            /\ Headers[j].direction = DirectionOf(line.marker)
            /\ Headers[j].timestamp = line.ts
        /\ \A p \in HeaderIdxs :
            /\ p > 1 /\ cleaned[p - 1] = RuleOpen
            /\ p + 2 <= Len(cleaned)
            /\ cleaned[p + 1] = Rule
            /\ cleaned[p + 2].kind \in {"json", "error"}

\* ---------------------------------------------------------------------------
\* C15: the export routine is entered only if both the log directory and the
\* session start time have been recorded; a normal exit, an exception or a
\* termination signal that comes before both are set performs no export.

SetupRecorded ==
    execution_state.logs_dir.set /\ execution_state.start_dt.set

C15_State == exports # <<>> => SetupRecorded

\* no step enters an export from a state in which one of the two is missing,
\* and a signal that arrives in such a state goes straight to sys.exit(1)
C15_Step ==
    ~SetupRecorded =>
        /\ exports' = exports
        /\ signals' # signals => pc' = "signal_exit" /\ handler' = "none"

C15_ExportOnlyAfterSetup == []C15_State /\ [][C15_Step]_vars

\* a signal arrived after the log directory was stored and before the start
\* time was: the process has left without an export
C15_Witness ==
    /\ pc = "signal_exit"
    /\ execution_state.logs_dir.set
    /\ ~execution_state.start_dt.set
    /\ exports = <<>>

\* ---------------------------------------------------------------------------
\* C16: a termination signal received after the start time and the log
\* directory were recorded attempts the export, with the stamped end time if
\* one is set and with the time of the signal otherwise, and the process then
\* exits with a non-zero status with no further model request or tool
\* dispatch; a run that ends without a signal and without a model-service
\* failure never exits with that status.

C16_SignalStep ==
    (signals' # signals /\ SetupRecorded) =>
        /\ Len(exports') = Len(exports) + 1
        /\ exports'[Len(exports')].interrupted
        /\ exports'[Len(exports')].end_dt =
              IF execution_state.end_dt.set THEN execution_state.end_dt.v ELSE now
        /\ handler' = "exporting"

C16_AfterSignal ==
    signals > 0 =>
        /\ requests' = requests
        /\ dispatched' = dispatched
        /\ pc' # pc => pc' = "signal_exit"

\* the run got as far as recording its start, and neither a signal nor a
\* failure of the model service ended it
C16_Unsignalled ==
    /\ pc \in Terminal
    /\ SetupRecorded
    /\ signals = 0
    /\ exc.type \notin ModelFailures

C16_ExitStatus ==
    /\ pc = "signal_exit" => ExitStatus # 0
    /\ C16_Unsignalled => ExitStatus = 0

C16_SignalExitsNonZero ==
    /\ []C16_ExitStatus
    /\ [][C16_SignalStep /\ C16_AfterSignal]_vars

\* the part of C16 about the signal itself
C16_SignalPart == [][C16_SignalStep /\ C16_AfterSignal]_vars

\* ---------------------------------------------------------------------------
\* C17: a failure inside the export (no log file, a read or write error, any
\* exception of the exporter or cleaner) is caught inside _handle_cleanup and
\* never changes the outcome of the run: after a graceful completion the
\* process still ends normally, and after a fatal model-service failure the
\* exception that leaves main is still the original one.

\* a step of main that ends an export of its own (not one of the signal handler)
EndsOwnExport ==
    /\ handler = "none"
    /\ signals' = signals
    /\ pc \in {"exporting", "exporting_failed"}
    /\ pc' # pc

C17_Step ==
    EndsOwnExport =>
        /\ exc' = exc
        /\ pc = "exporting" => pc' = "done"
        /\ pc = "exporting_failed" => pc' = "raised"

ExportFailed(e) == e.result \in ExportResults \ {"written"}

C17_State ==
    /\ pc = "done" => exc = NoExc /\ ExitStatus = 0
    /\ (pc = "raised" /\ exports # <<>> /\ signals = 0) =>
            /\ "at" \in DOMAIN exc
            /\ exports[1].end_dt = exc.at

C17_ExportFailureContained == []C17_State /\ [][C17_Step]_vars

\* the run ended normally although its export found no log file
C17_Witness ==
    /\ pc = "done"
    /\ exports # <<>>
    /\ exports[Len(exports)].result = "FileNotFoundError"

\* main re-raised the failure of the model service although its export failed
C17_WitnessFailedRun ==
    /\ pc = "raised"
    /\ exc.type \in ModelFailures
    /\ exports # <<>>
    /\ ExportFailed(exports[Len(exports)])

\* ---------------------------------------------------------------------------
\* C18: in every run the session start time is written exactly once and
\* before the first model-service request, and the session end time is
\* written exactly once, at graceful completion or at interruption, whichever
\* comes first; neither value is ever written a second time.

C18_NeverTwice ==
    /\ writes.start_dt <= 1
    /\ writes.end_dt <= 1
    /\ execution_state.start_dt.set <=> writes.start_dt = 1
    /\ execution_state.end_dt.set <=> writes.end_dt = 1

C18_StartBeforeRequests ==
    /\ requests > 0 => writes.start_dt = 1
    /\ writes.start_dt = 0 => writes.end_dt = 0

\* a run that recorded its start and has ended, gracefully or interrupted,
\* has recorded its end
C18_EndWritten ==
    (pc \in Terminal /\ writes.start_dt = 1) => writes.end_dt = 1

\* the end time is written by the step that completes or interrupts the run
C18_EndStep ==
    writes'.end_dt # writes.end_dt =>
        /\ pc \notin {"exporting", "exporting_failed"}
        /\ pc' \in {"exporting", "exporting_failed"}
        /\ execution_state'.end_dt.v \in {now, now'}

C18_TimesWrittenOnce ==
    /\ [](C18_NeverTwice /\ C18_StartBeforeRequests /\ C18_EndWritten)
    /\ [][C18_EndStep]_vars

\* the parts of C18 other than the end time of a signalled run
C18_OtherParts ==
    /\ [](C18_NeverTwice /\ C18_StartBeforeRequests)
    /\ [][C18_EndStep]_vars

\* ---------------------------------------------------------------------------
\* C19: for every keep_last K >= 0, at each model-service request made after
\* n successful captures the history holds exactly min(n, K) intact
\* image-bearing user messages and max(0, n - K) placeholder messages, the
\* intact ones being the most recent captures and all of them at the
\* positions where they were appended; never more than K intact at a request.

IsPlaceholder(m) == m.role = "user" /\ "file_hint" \in DOMAIN m.content

PlaceholderIdxs(msgs) == {i \in 1..Len(msgs) : IsPlaceholder(msgs[i])}

IntactIdxs(msgs) == {i \in 1..Len(msgs) : IsImageBearing(msgs[i])}

\* the message at position i is where run_agent appended a capture: right
\* after the tool message of a take_screenshot call
AtCapturePosition(msgs, i) ==
    /\ i > 1
    /\ msgs[i - 1].role = "tool"
    /\ msgs[i - 1].name = "take_screenshot"

C19_KeptAtRequest ==
    pc = "request" =>
        LET K == keep_last_screenshots
            n == captures
            intact == IntactIdxs(messages)
            placed == PlaceholderIdxs(messages)
        IN /\ Cardinality(intact) = Min(n, K)
           /\ Cardinality(placed) = Max(0, n - K)
           /\ Cardinality(intact) <= K
           /\ \A i \in intact, j \in placed : j < i
           /\ \A i \in intact \cup placed : AtCapturePosition(messages, i)

\* the same for a threshold of at least one
C19_PositiveKeep == keep_last_screenshots >= 1 => C19_KeptAtRequest

\* ---------------------------------------------------------------------------
\* C20: _prune_old_screenshots changes only the content field of the messages
\* it replaces: the length of the history, the order and the role of every
\* message, every message that is not a user message with a list content
\* holding an image part (system, assistant and tool messages, text-only user
\* messages, earlier placeholders) and the K most recent image-bearing
\* messages are unchanged; a content once replaced is never image-bearing
\* again in the same run.

\* m and p differ in nothing but the content field
SameButContent(m, p) ==
    /\ DOMAIN m = DOMAIN p
    /\ \A f \in DOMAIN p \ {"content"} : m[f] = p[f]

C20_State ==
    pc = "pruned" =>
        LET idxs == ImageIdxs(pre)
            N == Len(idxs)
            K == keep_last_screenshots
        IN /\ Len(messages) = Len(pre)
           /\ \A i \in 1..Len(pre) : SameButContent(messages[i], pre[i])
           /\ \A i \in 1..Len(pre) : ~IsImageBearing(pre[i]) => messages[i] = pre[i]
           /\ \A k \in 1..N : k > N - K => messages[idxs[k]] = pre[idxs[k]]
           /\ \A i \in 1..Len(pre) :
                messages[i] # pre[i] =>
                    /\ IsPlaceholder(messages[i])
                    /\ \A K2 \in 0..MaxKeep :
                         PruneOldScreenshots(messages, K2)[i] = messages[i]

\* no step brings an image back into a placeholder, moves a message or
\* changes its role
C20_Step ==
    /\ Len(messages') >= Len(messages)
    /\ \A i \in 1..Len(messages) :
        /\ SameButContent(messages'[i], messages[i])
        /\ IsPlaceholder(messages[i]) => messages'[i] = messages[i]

C20_PruneChangesOnlyContent == []C20_State /\ [][C20_Step]_vars

\* the part of C20 about the rest of the run
C20_RunKeepsPlaceholders == [][C20_Step]_vars

\* a prune with K = 1 replaced the earlier of two captures and left the tool
\* message, the earlier placeholder and the latest capture as they were
C20_Witness ==
    /\ pc = "pruned"
    /\ keep_last_screenshots = 1
    /\ Len(pre) = 4
    /\ IsPlaceholder(pre[1]) /\ messages[1] = pre[1]
    /\ pre[2].role = "tool" /\ messages[2] = pre[2]
    /\ IsImageBearing(pre[3]) /\ IsPlaceholder(messages[3])
    /\ IsImageBearing(pre[4]) /\ messages[4] = pre[4]

\* ---------------------------------------------------------------------------
\* C21: the placeholder pruning writes at position i carries the file suffix
\* "(omitted; file=<path>)" if and only if i > 0 and the message at i-1 has
\* role tool and a content that parses as a JSON object with ok true and a
\* file field, and the path of the suffix is that field; in every other case
\* (no predecessor, predecessor not a tool message, content not parseable, ok
\* false, no file) the placeholder is exactly "captured image data".

\* the content of the tool message m is the JSON text of an object
ParsesAsObject(m) == m.content.kind = "str" /\ "json" \in DOMAIN m.content

\* the message before position i (1-based) reports a written file
PredecessorReportsFile(msgs, i) ==
    /\ i > 1
    /\ msgs[i - 1].role = "tool"
    /\ ParsesAsObject(msgs[i - 1])
    /\ msgs[i - 1].content.json.ok = TRUE
    /\ "file" \in DOMAIN msgs[i - 1].content.json

ReplacedIdxs == {i \in 1..Len(pre) : messages[i] # pre[i]}

C21_WitnessPlain ==
    /\ pc = "pruned"
    /\ Len(pre) = 4
    /\ ReplacedIdxs = {1, 3}
    /\ pre[2].role = "tool" /\ ~ParsesAsObject(pre[2])
    /\ messages[1].content = Placeholder([omitted |-> FALSE])
    /\ messages[3].content = Placeholder([omitted |-> FALSE])

\* ---------------------------------------------------------------------------
\* C22: from start_index on, _extract_json_from_position stops accumulating
\* at the first point where the brace depth returns to zero after having been
\* opened at least once: it does not stop on a line before any opening brace
\* outside a string has been seen, and it does not continue past the line on
\* which the first opened object closes.

\* an opening brace outside a string is counted within the first j steps
OpenedBy(steps, j) ==
    \E o \in 1..j : steps[o].after.brace_count > steps[o].before.brace_count

\* the index (from 0) of the first line from i on within which the depth is
\* back at zero with an opening brace counted before; -1 if there is none
RECURSIVE FirstCloseLine(_, _, _, _)
FirstCloseLine(texts, i, st, opened) ==
    IF ~(i < Len(texts)) THEN -1
    ELSE LET steps == ScanSteps(st, texts[i + 1], 1)
             closes == \E j \in 1..Len(steps) :
                          /\ steps[j].after.brace_count = 0
                          /\ opened \/ OpenedBy(steps, j)
         IN IF closes THEN i
            ELSE FirstCloseLine(texts, i + 1, ScanLine(st, texts[i + 1], 1),
                                opened \/ OpenedBy(steps, Len(steps)))

CloseLine == FirstCloseLine(Texts(log_lines), ext.start_idx, ScanStart, FALSE)

\* the line the scanner stopped on (from 0), or the number of lines if it
\* ran to the end
StoppedOn == ext.next - 1

ScannedSome == pc = "extracted" /\ ext.start_idx < Len(log_lines)

\* no stop on a line before the first opened object closes
C22_NoEarlyStop ==
    ScannedSome =>
        IF CloseLine = -1 THEN StoppedOn = Len(log_lines) ELSE StoppedOn >= CloseLine

\* no line taken after the one on which the first opened object closes
C22_NoOverrun ==
    (ScannedSome /\ CloseLine # -1) => StoppedOn <= CloseLine

C22_StopsAtFirstClose == C22_NoEarlyStop /\ C22_NoOverrun

\* ---------------------------------------------------------------------------
\* C23: across the dispatches of one run the artifact index starts at the
\* configured start index, increases by exactly one on each successful
\* capture and is unchanged by every other dispatch (other tools, unknown
\* tools, invalid arguments, a capture that fails before its file is
\* written); it never decreases, so no two captures of one run are written
\* to the same artifact name.

\* run_agent has built dump_cfg
InRunAgent == pc \notin {"main", "store_logs_dir", "store_start_dt", "run_agent",
                         "usage_exit"} /\ messages # <<>>

\* the files the captures of the run reported, in history order
RECURSIVE ReportedFiles(_)
ReportedFiles(msgs) ==
    IF msgs = <<>> THEN <<>>
    ELSE (IF /\ msgs[1].role = "tool"
             /\ "json" \in DOMAIN msgs[1].content
             /\ "file" \in DOMAIN msgs[1].content.json
          THEN <<msgs[1].content.json.file>> ELSE <<>>) \o ReportedFiles(Tail(msgs))

C23_State ==
    InRunAgent =>
        /\ dump_idx = DumpStart + captures
        /\ LET files == ReportedFiles(messages) IN
           /\ Len(files) = captures
           /\ \A k \in 1..Len(files) : files[k] = DumpStart + k - 1

\* the step dispatched a take_screenshot call that returned
CaptureSucceeds ==
    /\ Len(dispatched') = Len(dispatched) + 1
    /\ tc.name = "take_screenshot"
    /\ exc' = exc

C23_Step ==
    /\ InRunAgent => dump_idx' >= dump_idx
    /\ Len(dispatched') = Len(dispatched) + 1 =>
          dump_idx' = IF CaptureSucceeds THEN dump_idx + 1 ELSE dump_idx
    /\ (InRunAgent /\ dispatched' = dispatched) => dump_idx' = dump_idx

C23_IndexCountsCaptures == []C23_State /\ [][C23_Step]_vars

\* two captures in one run: two distinct files, the index two above the start
C23_Witness ==
    /\ captures = 2
    /\ dump_idx = DumpStart + 2
    /\ ReportedFiles(messages) = <<DumpStart, DumpStart + 1>>

\* a capture, then a dispatch that is not a capture: the index stays one above
C23_WitnessOther ==
    /\ captures = 1
    /\ Len(dispatched) = 2
    /\ dump_idx = DumpStart + 1

\* ---------------------------------------------------------------------------
\* C24: for every move_mouse call whose arguments decode to an object with
\* numeric x and y, the coordinates handed to the collaborator both lie in
\* [0, 1000]: a value below 0 becomes 0, a value above 1000 becomes 1000, a
\* value inside the range is passed unchanged, and the call succeeds with ok
\* true.

\* the decoded arguments of the call, when they are an object
DecodedObject(a) ==
    /\ a.t = "str"
    /\ a.s # ""
    /\ JsonLoadsArg(a.s) # DecodeError
    /\ JsonLoadsArg(a.s).t = "object"

HasField(a, f) == DecodedObject(a) /\ f \in DOMAIN JsonLoadsArg(a.s).fields

NumericXY(a) ==
    /\ HasField(a, "x") /\ JsonLoadsArg(a.s).fields.x.t = "number"
    /\ HasField(a, "y") /\ JsonLoadsArg(a.s).fields.y.t = "number"

\* what the claim lets through for the decoded number v
ClaimedCoordinate(handed, v) ==
    /\ handed.cls = "finite"
    /\ handed.n >= 0 /\ handed.n <= 1000
    /\ v.cls = "finite"
    /\ handed.n = (IF v.n < 0 THEN 0 ELSE IF v.n > 1000 THEN 1000 ELSE v.n)

MoveMouseDone == pc = "tool_done" /\ tc.name = "move_mouse"

C24_CoordinatesClamped ==
    (MoveMouseDone /\ NumericXY(tc.arguments)) =>
        /\ ret.raised = FALSE
        /\ ret.tool_msg.content = OkPayload
        /\ Len(winapi_calls) = 1
        /\ winapi_calls[1][1] = "move_mouse_norm"
        /\ ClaimedCoordinate(winapi_calls[1][2], JsonLoadsArg(tc.arguments.s).fields.x)
        /\ ClaimedCoordinate(winapi_calls[1][3], JsonLoadsArg(tc.arguments.s).fields.y)

\* the same for numbers that are finite and fit a double
FiniteXY(a) ==
    /\ NumericXY(a)
    /\ JsonLoadsArg(a.s).fields.x.cls = "finite"
    /\ JsonLoadsArg(a.s).fields.y.cls = "finite"

C24_FiniteClamped == FiniteXY(tc.arguments) => C24_CoordinatesClamped

\* ---------------------------------------------------------------------------
\* C25: a move_mouse call whose argument object lacks x or y, or holds for x
\* or y a value that is not a JSON number (a string, a boolean, null, a list
\* or an object), returns a tool message of error kind invalid_arguments and
\* does not invoke the movement collaborator.

MissingXY(a) == DecodedObject(a) /\ ~(HasField(a, "x") /\ HasField(a, "y"))

NonNumberXY(a) ==
    /\ HasField(a, "x") /\ HasField(a, "y")
    /\ \/ JsonLoadsArg(a.s).fields.x.t # "number"
       \/ JsonLoadsArg(a.s).fields.y.t # "number"

C25_Rejected ==
    /\ ret.raised = FALSE
    /\ IsToolError(ret.tool_msg, "invalid_arguments")
    /\ ret.user_msg = NoMsg
    /\ winapi_calls = <<>>

C25_NonNumbersRejected ==
    (MoveMouseDone /\ (MissingXY(tc.arguments) \/ NonNumberXY(tc.arguments))) => C25_Rejected

\* the part of C25 about a missing coordinate
C25_MissingRejected == (MoveMouseDone /\ MissingXY(tc.arguments)) => C25_Rejected

\* ---------------------------------------------------------------------------
\* C26: no marker line whose timestamp is unparseable or lies outside
\* [start_time - 2s, end_time + 2s] ever appears in the raw artifact or gets
\* a banner in the cleaned artifact, also when it follows in the source log
\* an in-window record whose braces never balance (or whose string never
\* closes) and which the scanner therefore extends over later lines.

\* the timestamp is a parsed time inside the window of the session
TimedInWindow(ts) == ts.k = "good" /\ InWindow(ts, execution_state)

C26_RawHasNoOutsider ==
    ExportLoopOver =>
        \A j \in 1..Len(raw_lines) :
            raw_lines[j].marker # "none" => TimedInWindow(ParseLogTs(raw_lines[j]))

C26_NoOutsiderBanner ==
    pc = "cleaned" => \A p \in HeaderIdxs : TimedInWindow(cleaned[p].timestamp)

C26_OutsidersExcluded == C26_RawHasNoOutsider /\ C26_NoOutsiderBanner

\* ---------------------------------------------------------------------------
\* C27: at every model-service request after the first the history is well
\* formed with respect to tool calls: the first two messages are still the
\* seeded system and task messages, every tool call id carried by an earlier
\* assistant message is answered by exactly one tool-role message with that
\* tool_call_id and name, placed after that assistant message and before the
\* next assistant message, and no tool-role message exists without such a
\* call.

\* the positions after the assistant message at a and before the next one
TurnOf(a) ==
    {j \in (a + 1)..Len(messages) :
        \A b \in (a + 1)..j : messages[b].role # "assistant"}

\* the tool messages of the turn of a that carry the id of the call
AnswersTo(a, call) ==
    {j \in TurnOf(a) : messages[j].role = "tool" /\ messages[j].tool_call_id = call.id}

AtLaterRequest == pc = "request" /\ requests >= 1

C28_State == Len(exports) <= 1

\* no step enters an export while one is in progress or after one has ended
C28_Step == exports # <<>> => Len(exports') = Len(exports)

C28_ExportAtMostOnce == []C28_State /\ [][C28_Step]_vars

\* without a signal the run exports at most once
C28_Unsignalled == signals = 0 => C28_State
====
